---- MODULE Spec2Model ----
(***************************************************************************)
(* A model of the sanitise-and-chunk pipeline of agent_smith:              *)
(*   src/src/security/sanitizer.py        DataSanitizer.clean_text         *)
(*   src/src/dataprep/01_chunk_and_clean.py   create_chunks, main          *)
(* A text is a sequence of one-character strings.  Positions are 1-based;  *)
(* a match end is the position after the last matched character.           *)
(***************************************************************************)
EXTENDS Integers, Sequences, FiniteSets, TLC

VARIABLES
  text,          \* clean_text: the argument
  cleaned_text,  \* clean_text: the local of that name
  key_idx,       \* clean_text: how many entries of self.patterns the loop has taken
  applied,       \* history: <<key, replacement, string the pattern was applied to>> per iteration
  result,        \* clean_text: the returned value
  cpc            \* clean_text: position ("idle", "enter", "loop", "done")

VARIABLES
  chunk_text,    \* create_chunks: the argument text
  chunk_size,    \* create_chunks: the argument of that name
  overlap,       \* create_chunks: the argument of that name
  words,         \* create_chunks: the local of that name
  i,             \* create_chunks: the loop variable
  chunks,        \* create_chunks: the local of that name
  windows,       \* history: <<i, chunk, appended>> per iteration of the loop
  outcome,       \* create_chunks: "" while running, then "return" or "ValueError"
  kpc            \* create_chunks: position ("idle", "enter", "loop", "done")

VARIABLES
  walk,          \* main: the files os.walk yields, in the order it yields them
  fidx,          \* main: how many of them the loop has taken
  filename,      \* main: the loop variable
  raw_content,   \* main: the local of that name
  clean_content, \* main: the local of that name
  file_chunks,   \* main: the local "chunks"
  widx,          \* main: how many chunks the write loop has taken
  f_out,         \* main: the lines written to the output stream, one record each
  total_files,   \* main: the local of that name
  total_chunks,  \* main: the local of that name
  mpc            \* main: position ("idle", "walk", "read", "sanitize", "chunk", "write", "done")

svars == <<text, cleaned_text, key_idx, applied, result, cpc>>
kvars == <<chunk_text, chunk_size, overlap, words, i, chunks, windows, outcome, kpc>>
mvars == <<walk, fidx, filename, raw_content, clean_content, file_chunks, widx, f_out,
           total_files, total_chunks, mpc>>
vars == <<svars, kvars, mvars>>

----------------------------------------------------------------------------
(* Characters and the classes the patterns use.                            *)

LowerSeq == <<"a","b","c","d","e","f","g","h","i","j","k","l","m","n","o","p","q","r","s","t","u","v","w","x","y","z">>
UpperSeq == <<"A","B","C","D","E","F","G","H","I","J","K","L","M","N","O","P","Q","R","S","T","U","V","W","X","Y","Z">>

Range(s) == {s[k] : k \in DOMAIN s}
Lower == Range(LowerSeq)
Upper == Range(UpperSeq)
Digit == {"0","1","2","3","4","5","6","7","8","9"}
Alnum == Lower \cup Upper \cup Digit
\* str.isspace / regex \s / str.split() / str.strip(): the ASCII whitespace
Whitespace == {" ", "\t", "\n", "\r", "\f"}
\* regex \w
WordChars == Alnum \cup {"_"}

ToUpper(c) == IF c \in Lower THEN UpperSeq[CHOOSE k \in DOMAIN LowerSeq : LowerSeq[k] = c] ELSE c
ToLower(c) == IF c \in Upper THEN LowerSeq[CHOOSE k \in DOMAIN UpperSeq : UpperSeq[k] = c] ELSE c

Min(S) == CHOOSE m \in S : \A o \in S : m <= o
Max(S) == CHOOSE m \in S : \A o \in S : m >= o

----------------------------------------------------------------------------
(* Regular expressions.  A pattern is a sequence of alternatives, tried in *)
(* order; an alternative is a sequence of items; an item is \b or a greedy *)
(* repetition cls{min,max} (open: no upper limit) of a character class.    *)

WordB == [k |-> "b"]
\* the end of the string: what re.fullmatch adds after a pattern
EndOfString == [k |-> "e"]
Rep(cls, m, n) == [k |-> "c", cls |-> cls, min |-> m, max |-> n, open |-> FALSE]
AtLeast(cls, m) == [k |-> "c", cls |-> cls, min |-> m, max |-> m, open |-> TRUE]
One(cls) == Rep(cls, 1, 1)
\* a literal word under (?i): each letter in either case
NoCase(w) == [k \in DOMAIN w |-> One({ToLower(w[k]), ToUpper(w[k])})]

\* \b at position p: exactly one of t[p-1], t[p] is a word character
WordBoundary(t, p) ==
  LET before == p > 1 /\ p - 1 <= Len(t) /\ t[p - 1] \in WordChars
      after == p >= 1 /\ p <= Len(t) /\ t[p] \in WordChars
  IN before # after

\* how many characters of cls follow from position p, at most cap
RECURSIVE Run(_, _, _, _)
Run(t, p, cls, cap) ==
  IF cap = 0 \/ p > Len(t) \/ t[p] \notin cls THEN 0
  ELSE 1 + Run(t, p + 1, cls, cap - 1)

\* The end of the match the backtracking engine finds for items[k..] at p, or
\* 0 when there is none: a greedy repetition takes the longest run with which
\* the rest still matches.
RECURSIVE MatchFrom(_, _, _, _)
MatchFrom(items, k, t, p) ==
  IF k > Len(items) THEN p
  ELSE IF items[k].k = "b"
  THEN IF WordBoundary(t, p) THEN MatchFrom(items, k + 1, t, p) ELSE 0
  ELSE IF items[k].k = "e"
  THEN IF p = Len(t) + 1 THEN MatchFrom(items, k + 1, t, p) ELSE 0
  ELSE LET it == items[k]
           r == Run(t, p, it.cls, IF it.open THEN Len(t) ELSE it.max)
           ends == {MatchFrom(items, k + 1, t, p + j) : j \in it.min..r} \ {0}
       IN IF ends = {} THEN 0 ELSE Max(ends)

\* The end of the match of pat starting at p (the first alternative that
\* matches), or 0.
MatchAt(pat, t, p) ==
  LET ok == {a \in DOMAIN pat : MatchFrom(pat[a], 1, t, p) # 0}
  IN IF ok = {} THEN 0 ELSE MatchFrom(pat[Min(ok)], 1, t, p)

\* re.sub's scan at position p: the replacement and the match end when pat
\* matches at p, else the character at p copied and the next position; hits
\* are the matches found, as <<start, end>>.
ScanStep(pat, repl, t, p) ==
  LET e == MatchAt(pat, t, p)
  IN IF e # 0 THEN [out |-> repl, pos |-> e, hits |-> {<<p, e>>}]
     ELSE [out |-> <<t[p]>>, pos |-> p + 1, hits |-> {}]

\* The scan over positions lo..hi, entered at position p >= lo: what it
\* writes, and the first position after hi it reaches.
RECURSIVE ScanRange(_, _, _, _, _, _)
ScanRange(pat, repl, t, lo, hi, p) ==
  IF p > hi THEN [out |-> <<>>, pos |-> p, hits |-> {}]
  ELSE IF lo = hi THEN ScanStep(pat, repl, t, p)
  ELSE LET mid == (lo + hi) \div 2
           a == ScanRange(pat, repl, t, lo, mid, p)
           b == ScanRange(pat, repl, t, mid + 1, hi, a.pos)
       IN [out |-> a.out \o b.out, pos |-> b.pos, hits |-> a.hits \cup b.hits]

\* re.sub(pattern, replacement, t): every non-overlapping match, leftmost
\* first, replaced
ReSub(pat, repl, t) ==
  IF Len(t) = 0 THEN t ELSE ScanRange(pat, repl, t, 1, Len(t), 1).out

\* the matches re.sub replaces (those re.finditer yields), as <<start, end>>
Matches(pat, t) ==
  IF Len(t) = 0 THEN {} ELSE ScanRange(pat, <<>>, t, 1, Len(t), 1).hits

\* re.fullmatch(pattern, s) is not None
FullMatch(pat, s) ==
  \E a \in DOMAIN pat : MatchFrom(pat[a] \o <<EndOfString>>, 1, s, 1) # 0

----------------------------------------------------------------------------
(* DataSanitizer.__init__                                                  *)

HexDigit == Digit \cup {"A","B","C","D","E","F","a","b","c","d","e","f"}
EmailLocal == Alnum \cup {".", "_", "%", "+", "-"}
EmailDomain == Alnum \cup {".", "-"}
\* [A-Z|a-z]: the bar is a member of the class
EmailTld == Upper \cup Lower \cup {"|"}
SecretToken == Alnum \cup {"_", "-"}

DigitsDot == <<Rep(Digit, 1, 3), One({"."})>>
IPV4 == << <<WordB>> \o DigitsDot \o DigitsDot \o DigitsDot \o <<Rep(Digit, 1, 3), WordB>> >>

EMAIL ==
  << <<WordB, AtLeast(EmailLocal, 1), One({"@"}), AtLeast(EmailDomain, 1), One({"."}),
       AtLeast(EmailTld, 2), WordB>> >>

SecretTail ==
  <<AtLeast(Whitespace, 0), One({":", "="}), AtLeast(Whitespace, 0), AtLeast(SecretToken, 16), WordB>>
SecretAlt(keyword) == <<WordB>> \o keyword \o SecretTail
SECRET_KEY ==
  << SecretAlt(NoCase(<<"a","p","i">>) \o <<Rep({"_", "-"}, 0, 1)>> \o NoCase(<<"k","e","y">>)),
     SecretAlt(NoCase(<<"a","c","c","e","s","s">>) \o <<Rep({"_", "-"}, 0, 1)>> \o NoCase(<<"t","o","k","e","n">>)),
     SecretAlt(NoCase(<<"s","e","c","r","e","t">>)),
     SecretAlt(NoCase(<<"p","a","s","s","w","o","r","d">>)),
     SecretAlt(NoCase(<<"a","u","t","h">>)) >>

HexPair == <<Rep(HexDigit, 2, 2), One({":", "-"})>>
MAC_ADDR == << HexPair \o HexPair \o HexPair \o HexPair \o HexPair \o <<Rep(HexDigit, 2, 2)>> >>

\* Variant, kept for comparison: the dict written with EMAIL before IPV4
Keys_EmailFirst == <<"EMAIL", "IPV4", "SECRET_KEY", "MAC_ADDR">>

\* self.patterns, in insertion order (the order .items() yields)
Keys == <<"IPV4", "EMAIL", "SECRET_KEY", "MAC_ADDR">>
patterns == [IPV4 |-> IPV4, EMAIL |-> EMAIL, SECRET_KEY |-> SECRET_KEY, MAC_ADDR |-> MAC_ADDR]

replacements ==
  [IPV4 |-> <<"[","R","E","D","A","C","T","E","D","_","I","P","]">>,
   EMAIL |-> <<"[","R","E","D","A","C","T","E","D","_","E","M","A","I","L","]">>,
   SECRET_KEY |-> <<"[","R","E","D","A","C","T","E","D","_","S","E","C","R","E","T","]">>,
   MAC_ADDR |-> <<"[","R","E","D","A","C","T","E","D","_","M","A","C","]">>]

\* Variant, kept for comparison: a MAC address masked by a zeroed address instead of a bracketed tag
Replacement_Mask(key) ==
  IF key = "MAC_ADDR"
  THEN <<"0","0","-","0","0","-","0","0","-","0","0","-","0","0","-","0","0">>
  ELSE replacements[key]

\* self.replacements.get(key, "[REDACTED]")
Replacement(key) ==
  IF key \in DOMAIN replacements THEN replacements[key]
  ELSE <<"[","R","E","D","A","C","T","E","D","]">>

----------------------------------------------------------------------------
(* DataSanitizer.clean_text                                                *)

\* one iteration of the loop: lines 48-49
ApplyPattern(key, t) == ReSub(patterns[key], Replacement(key), t)

\* the patterns of order, applied one after the other
RECURSIVE ApplyAll(_, _)
ApplyAll(order, t) ==
  IF order = <<>> THEN t ELSE ApplyAll(Tail(order), ApplyPattern(Head(order), t))

\* clean_text as a function of its argument
CleanText(t) == IF t = <<>> THEN <<>> ELSE ApplyAll(Keys, t)

\* Variant, kept for comparison: the guard written as "if not text.strip()"
CleanEnter_Strip ==
  /\ cpc = "enter"
  /\ IF \A k \in DOMAIN text : text[k] \in Whitespace
     THEN /\ result' = <<>>
          /\ cpc' = "done"
          /\ UNCHANGED cleaned_text
     ELSE /\ cleaned_text' = text
          /\ cpc' = "loop"
          /\ UNCHANGED result
  /\ UNCHANGED <<text, key_idx, applied, kvars, mvars>>

\* line 41: if not text: return ""
CleanEnter ==
  /\ cpc = "enter"
  /\ IF text = <<>>
     THEN /\ result' = <<>>
          /\ cpc' = "done"
          /\ UNCHANGED cleaned_text
     ELSE /\ cleaned_text' = text
          /\ cpc' = "loop"
          /\ UNCHANGED result
  /\ UNCHANGED <<text, key_idx, applied, kvars, mvars>>

\* lines 47-49: the next (key, pattern) of self.patterns.items()
CleanLoop ==
  /\ cpc = "loop"
  /\ key_idx < Len(Keys)
  /\ LET key == Keys[key_idx + 1]
     IN /\ cleaned_text' = ApplyPattern(key, cleaned_text)
        /\ applied' = Append(applied, <<key, Replacement(key), cleaned_text>>)
  /\ key_idx' = key_idx + 1
  /\ UNCHANGED <<text, result, cpc, kvars, mvars>>

\* line 51: return cleaned_text
CleanReturn ==
  /\ cpc = "loop"
  /\ key_idx = Len(Keys)
  /\ result' = cleaned_text
  /\ cpc' = "done"
  /\ UNCHANGED <<text, cleaned_text, key_idx, applied, kvars, mvars>>

----------------------------------------------------------------------------
(* Inputs of clean_text: every concatenation of at most MaxFrags fragments *)

MaxFrags == 3

Fragments ==
  << <<"1",".","2",".","3",".","4">>,
     <<"a","@","b",".","c","d">>,
     <<"a","u","t","h","=">>,
     <<"0","0","-","1","1","-","2","2","-","3","3","-","4","4","-","5","5">>,
     <<"0","0",":","1","B",":","4","4",":","1","1",":","3","A",":","B","7">>,
     <<"A","B","C","D","E","F","G","H","I","J","K","L","M","N","O">>,
     <<"x">>,
     <<"7">>,
     <<".">>,
     <<" ">>,
     <<"\n">> >>

RECURSIVE Concat(_)
Concat(ss) == IF ss = <<>> THEN <<>> ELSE Head(ss) \o Concat(Tail(ss))

CleanInputs ==
  {Concat([k \in DOMAIN f |-> Fragments[f[k]]]) :
     f \in UNION {[1..n -> DOMAIN Fragments] : n \in 0..MaxFrags}}

\* no call of clean_text, of create_chunks, of main in progress
IdleClean ==
  /\ text = <<>> /\ cleaned_text = <<>> /\ key_idx = 0 /\ applied = <<>>
  /\ result = <<>> /\ cpc = "idle"
IdleChunks ==
  /\ chunk_text = <<>> /\ chunk_size = 0 /\ overlap = 0 /\ words = <<>> /\ i = 0
  /\ chunks = <<>> /\ windows = <<>> /\ outcome = "" /\ kpc = "idle"
IdleMain ==
  /\ walk = <<>> /\ fidx = 0 /\ filename = <<>> /\ raw_content = <<>>
  /\ clean_content = <<>> /\ file_chunks = <<>> /\ widx = 0 /\ f_out = <<>>
  /\ total_files = 0 /\ total_chunks = 0 /\ mpc = "idle"

InitClean ==
  /\ text \in CleanInputs
  /\ cleaned_text = <<>>
  /\ key_idx = 0
  /\ applied = <<>>
  /\ result = <<>>
  /\ cpc = "enter"
  /\ IdleChunks
  /\ IdleMain

NextClean == CleanEnter \/ CleanLoop \/ CleanReturn

SpecClean == InitClean /\ [][NextClean]_vars

----------------------------------------------------------------------------
(* create_chunks                                                           *)

\* text.split(): the maximal runs of non-whitespace characters of t[lo..hi],
\* in order
RECURSIVE SplitRange(_, _, _)
SplitRange(t, lo, hi) ==
  IF lo > hi THEN <<>>
  ELSE IF lo = hi THEN (IF t[lo] \in Whitespace THEN <<>> ELSE << <<t[lo]>> >>)
  ELSE LET mid == (lo + hi) \div 2
           l == SplitRange(t, lo, mid)
           r == SplitRange(t, mid + 1, hi)
       IN IF t[mid] \notin Whitespace /\ t[mid + 1] \notin Whitespace
          THEN SubSeq(l, 1, Len(l) - 1) \o <<l[Len(l)] \o r[1]>> \o Tail(r)
          ELSE l \o r
Split(t) == SplitRange(t, 1, Len(t))

\* sep.join(ws[lo..hi])
RECURSIVE JoinRange(_, _, _, _)
JoinRange(ws, sep, lo, hi) ==
  IF lo > hi THEN <<>>
  ELSE IF lo = hi THEN ws[lo]
  ELSE LET mid == (lo + hi) \div 2
       IN JoinRange(ws, sep, lo, mid) \o sep \o JoinRange(ws, sep, mid + 1, hi)
Join(ws, sep) == JoinRange(ws, sep, 1, Len(ws))

\* Variant, kept for comparison: a slice one element short
Slice_Short(s, a, b) == SubSeq(s, a + 1, IF b - 1 < Len(s) THEN b - 1 ELSE Len(s))

\* s[a:b] for 0 <= a <= b
Slice(s, a, b) == SubSeq(s, a + 1, IF b < Len(s) THEN b ELSE Len(s))

\* Variant, kept for comparison: the overlap added to the window size instead of subtracted
Stride_Plus(size, over) == size + over

\* the step of range(0, len(words), chunk_size - overlap)
Stride(size, over) == size - over

\* line 36: " ".join(words[i : i + chunk_size])
WindowAt(ws, at, size) == Join(Slice(ws, at, at + size), <<" ">>)

\* the literal of line 39
MinChunkLen == 50

\* Variant, kept for comparison: the filter written with >=
Keep_Ge(chunk) == Len(chunk) >= MinChunkLen

\* Variant, kept for comparison: the filter asking for one character more
Keep_Above(chunk) == Len(chunk) > MinChunkLen + 1

\* line 39: len(chunk) > 50
Keep(chunk) == Len(chunk) > MinChunkLen

\* lines 28-34: split; no words: return []; else build the range, which
\* raises ValueError for a step of zero
ChunkEnter ==
  /\ kpc = "enter"
  /\ words' = Split(chunk_text)
  /\ IF words' = <<>>
     THEN kpc' = "done" /\ outcome' = "return"
     ELSE IF Stride(chunk_size, overlap) = 0
     THEN kpc' = "done" /\ outcome' = "ValueError"
     ELSE kpc' = "loop" /\ outcome' = ""
  /\ i' = 0
  /\ chunks' = <<>>
  /\ UNCHANGED <<chunk_text, chunk_size, overlap, windows, svars, mvars>>

\* lines 34-40: one iteration; a range with a negative step is empty
ChunkLoop ==
  /\ kpc = "loop"
  /\ Stride(chunk_size, overlap) > 0
  /\ i < Len(words)
  /\ LET chunk == WindowAt(words, i, chunk_size)
     IN /\ chunks' = IF Keep(chunk) THEN Append(chunks, chunk) ELSE chunks
        /\ windows' = Append(windows, <<i, chunk, Keep(chunk)>>)
  /\ i' = i + Stride(chunk_size, overlap)
  /\ UNCHANGED <<chunk_text, chunk_size, overlap, words, outcome, kpc, svars, mvars>>

\* Variant, kept for comparison: the loop left as soon as a full window no
\* longer fits
ChunkReturn_Early ==
  /\ kpc = "loop"
  /\ Stride(chunk_size, overlap) < 0 \/ i + chunk_size > Len(words)
  /\ kpc' = "done"
  /\ outcome' = "return"
  /\ UNCHANGED <<chunk_text, chunk_size, overlap, words, i, chunks, windows, svars, mvars>>

\* line 42: the range is exhausted
ChunkReturn ==
  /\ kpc = "loop"
  /\ Stride(chunk_size, overlap) < 0 \/ i >= Len(words)
  /\ kpc' = "done"
  /\ outcome' = "return"
  /\ UNCHANGED <<chunk_text, chunk_size, overlap, words, i, chunks, windows, svars, mvars>>

\* the windows from offset at on that pass the filter
RECURSIVE Collect(_, _, _, _)
Collect(ws, size, step, at) ==
  IF at >= Len(ws) THEN <<>>
  ELSE LET chunk == WindowAt(ws, at, size)
       IN (IF Keep(chunk) THEN <<chunk>> ELSE <<>>) \o Collect(ws, size, step, at + step)

\* create_chunks as a function of its arguments
CreateChunks(t, size, over) ==
  LET ws == Split(t)
  IN IF ws = <<>> THEN [outcome |-> "return", chunks |-> <<>>]
     ELSE IF Stride(size, over) = 0 THEN [outcome |-> "ValueError", chunks |-> <<>>]
     ELSE IF Stride(size, over) < 0 THEN [outcome |-> "return", chunks |-> <<>>]
     ELSE [outcome |-> "return", chunks |-> Collect(ws, size, Stride(size, over), 0)]

----------------------------------------------------------------------------
(* Inputs of create_chunks: texts of at most MaxTokens words drawn from    *)
(* WordPool, in two layouts of whitespace; window sizes 1..MaxChunkSize    *)
(* and overlaps 0..MaxOverlap; and the configured sizes on a text of twice *)
(* CHUNK_SIZE words.                                                       *)

\* lines 20-21
CHUNK_SIZE == 500
OVERLAP == 50

MaxTokens == 3
MaxChunkSize == 4
MaxOverlap == 4

Word(c, n) == [k \in 1..n |-> c]
WordPool == <<Word("a", 1), Word("b", 24), Word("c", 25), Word("d", 51)>>

TokenLists ==
  {[k \in DOMAIN f |-> WordPool[f[k]]] : f \in UNION {[1..n -> DOMAIN WordPool] : n \in 0..MaxTokens}}

\* words separated by one space; or by newline and tab, with whitespace around
Layouts(ws) == {Join(ws, <<" ">>), <<" ">> \o Join(ws, <<"\n", "\t">>) \o <<"\n">>}

ChunkTexts == UNION {Layouts(ws) : ws \in TokenLists}

\* 2 * CHUNK_SIZE one-letter words separated by single spaces
ScenarioText ==
  [p \in 1..(4 * CHUNK_SIZE - 1) |->
     IF p % 2 = 1 THEN LowerSeq[(((p + 1) \div 2) % 26) + 1] ELSE " "]

InitChunks ==
  /\ \/ /\ chunk_text \in ChunkTexts
        /\ chunk_size \in 1..MaxChunkSize
        /\ overlap \in 0..MaxOverlap
     \/ /\ chunk_text = ScenarioText
        /\ chunk_size = CHUNK_SIZE
        /\ overlap = OVERLAP
  /\ words = <<>>
  /\ i = 0
  /\ chunks = <<>>
  /\ windows = <<>>
  /\ outcome = ""
  /\ kpc = "enter"
  /\ IdleClean
  /\ IdleMain

NextChunks == ChunkEnter \/ ChunkLoop \/ ChunkReturn

SpecChunks == InitChunks /\ [][NextChunks]_vars

\* the interpreter keeps executing the for statement of line 34: an iteration
\* or the exit that can be taken is taken
SpecChunksFair == SpecChunks /\ WF_vars(ChunkLoop \/ ChunkReturn)

\* the loop and the function agree
ChunksAgree ==
  kpc = "done" =>
    CreateChunks(chunk_text, chunk_size, overlap) = [outcome |-> outcome, chunks |-> chunks]

----------------------------------------------------------------------------
(* main                                                                    *)

\* line 64: the suffixes of text-based files
Extensions ==
  {<<".","t","x","t">>, <<".","l","o","g">>, <<".","m","d">>, <<".","j","s","o","n">>}
\* str.lower()
LowerCase(s) == [k \in DOMAIN s |-> ToLower(s[k])]
\* str.endswith
EndsWith(s, suffix) ==
  Len(suffix) <= Len(s) /\ SubSeq(s, Len(s) - Len(suffix) + 1, Len(s)) = suffix
\* line 64: filename.lower().endswith(('.txt', '.log', '.md', '.json'))
TextFile(name) == \E e \in Extensions : EndsWith(LowerCase(name), e)
\* line 75: not raw_content.strip()
Blank(t) == \A k \in DOMAIN t : t[k] \in Whitespace
\* lines 87-91: the record of one chunk; json.dumps(record) + "\n" is its line
Record(name, chunk) == [source |-> name, text |-> chunk]

\* lines 61-65: the next file of the walk; a file of another kind is skipped
MainNextFile ==
  /\ mpc = "walk"
  /\ fidx < Len(walk)
  /\ fidx' = fidx + 1
  /\ filename' = walk[fidx + 1].name
  /\ mpc' = IF TextFile(walk[fidx + 1].name) THEN "read" ELSE "walk"
  /\ UNCHANGED <<walk, raw_content, clean_content, file_chunks, widx, f_out, total_files,
                 total_chunks, svars, kvars>>

\* lines 72-76: the file is read; blank content is skipped
MainRead ==
  /\ mpc = "read"
  /\ walk[fidx].readable
  /\ raw_content' = walk[fidx].content
  /\ mpc' = IF Blank(walk[fidx].content) THEN "walk" ELSE "sanitize"
  /\ UNCHANGED <<walk, fidx, filename, clean_content, file_chunks, widx, f_out, total_files,
                 total_chunks, svars, kvars>>

\* lines 72, 97-98: open or read raises; the handler reports it and the walk
\* goes on
MainReadError ==
  /\ mpc = "read"
  /\ ~walk[fidx].readable
  /\ mpc' = "walk"
  /\ UNCHANGED <<walk, fidx, filename, raw_content, clean_content, file_chunks, widx, f_out,
                 total_files, total_chunks, svars, kvars>>

\* line 80
MainSanitize ==
  /\ mpc = "sanitize"
  /\ clean_content' = CleanText(raw_content)
  /\ mpc' = "chunk"
  /\ UNCHANGED <<walk, fidx, filename, raw_content, file_chunks, widx, f_out, total_files,
                 total_chunks, svars, kvars>>

\* Variant, kept for comparison: the raw content chunked
MainChunk_Raw ==
  /\ mpc = "chunk"
  /\ LET got == CreateChunks(raw_content, CHUNK_SIZE, OVERLAP)
     IN IF got.outcome = "return"
        THEN file_chunks' = got.chunks /\ widx' = 0 /\ mpc' = "write"
        ELSE mpc' = "walk" /\ UNCHANGED <<file_chunks, widx>>
  /\ UNCHANGED <<walk, fidx, filename, raw_content, clean_content, f_out, total_files,
                 total_chunks, svars, kvars>>

\* line 83; an exception would go to the handler of lines 97-98
MainChunk ==
  /\ mpc = "chunk"
  /\ LET got == CreateChunks(clean_content, CHUNK_SIZE, OVERLAP)
     IN IF got.outcome = "return"
        THEN file_chunks' = got.chunks /\ widx' = 0 /\ mpc' = "write"
        ELSE mpc' = "walk" /\ UNCHANGED <<file_chunks, widx>>
  /\ UNCHANGED <<walk, fidx, filename, raw_content, clean_content, f_out, total_files,
                 total_chunks, svars, kvars>>

\* lines 86-92: the next chunk's record is written
MainWrite ==
  /\ mpc = "write"
  /\ widx < Len(file_chunks)
  /\ f_out' = Append(f_out, Record(filename, file_chunks[widx + 1]))
  /\ total_chunks' = total_chunks + 1
  /\ widx' = widx + 1
  /\ UNCHANGED <<walk, fidx, filename, raw_content, clean_content, file_chunks, total_files,
                 mpc, svars, kvars>>

\* lines 94-95: the file is counted
MainFileDone ==
  /\ mpc = "write"
  /\ widx = Len(file_chunks)
  /\ total_files' = total_files + 1
  /\ mpc' = "walk"
  /\ UNCHANGED <<walk, fidx, filename, raw_content, clean_content, file_chunks, widx, f_out,
                 total_chunks, svars, kvars>>

\* lines 100-102: the walk is over and the output stream closed
MainFinish ==
  /\ mpc = "walk"
  /\ fidx = Len(walk)
  /\ mpc' = "done"
  /\ UNCHANGED <<walk, fidx, filename, raw_content, clean_content, file_chunks, widx, f_out,
                 total_files, total_chunks, svars, kvars>>

----------------------------------------------------------------------------
(* Inputs of main: a walk of at most MaxFiles files drawn from Files.      *)

MaxFiles == 2

\* CHUNK_SIZE + OVERLAP words, one per line, an address among the first and
\* one among the last
LongWords ==
  [k \in 1..(CHUNK_SIZE + OVERLAP) |->
     IF k = 2 THEN <<"1",".","2",".","3",".","4">>
     ELSE IF k = CHUNK_SIZE + 1 THEN <<"a","@","b",".","c","d">>
     ELSE <<LowerSeq[(k % 26) + 1], "w">>]
LongContent == Join(LongWords, <<"\n">>)
\* one chunk once sanitized
MediumContent == <<"h","o","s","t"," ","1",".","2",".","3",".","4","\n">> \o Word("d", 51)
\* too short for a chunk
ShortContent == <<"m","a","i","l"," ","a","@","b",".","c","d">>

Files ==
  { [name |-> <<"a",".","t","x","t">>, content |-> LongContent, readable |-> TRUE],
    [name |-> <<"b",".","L","O","G">>, content |-> MediumContent, readable |-> TRUE],
    [name |-> <<"c",".","b","i","n">>, content |-> MediumContent, readable |-> TRUE],
    [name |-> <<"d",".","m","d">>, content |-> <<" ", "\n">>, readable |-> TRUE],
    [name |-> <<"e",".","j","s","o","n">>, content |-> MediumContent, readable |-> FALSE],
    [name |-> <<"f",".","t","x","t">>, content |-> ShortContent, readable |-> TRUE],
    [name |-> <<"g",".","l","o","g">>, content |-> <<>>, readable |-> TRUE] }

Init ==
  /\ walk \in UNION {[1..n -> Files] : n \in 0..MaxFiles}
  /\ fidx = 0
  /\ filename = <<>>
  /\ raw_content = <<>>
  /\ clean_content = <<>>
  /\ file_chunks = <<>>
  /\ widx = 0
  /\ f_out = <<>>
  /\ total_files = 0
  /\ total_chunks = 0
  /\ mpc = "walk"
  /\ IdleClean
  /\ IdleChunks

Next ==
  \/ MainNextFile
  \/ MainRead
  \/ MainReadError
  \/ MainSanitize
  \/ MainChunk
  \/ MainWrite
  \/ MainFileDone
  \/ MainFinish

Spec == Init /\ [][Next]_vars

----------------------------------------------------------------------------
(* Properties of clean_text, checked under SpecClean.                      *)

Occurs(s, t) == \E p \in 1..(Len(t) - Len(s) + 1) : SubSeq(t, p, p + Len(s) - 1) = s
OnlyWhitespace(t) == \A k \in DOMAIN t : t[k] \in Whitespace
\* every order the four patterns can be applied in
Orders == {o \in [DOMAIN Keys -> Range(Keys)] : Range(o) = Range(Keys)}

\* C1 (as claimed): no substring of the input that matches a registered
\* pattern occurs verbatim in the output of clean_text, whatever surrounds it.
C1_NoLeak ==
  cpc = "done" =>
    \A key \in Range(Keys) : \A from \in DOMAIN text : \A to \in from..Len(text) :
      FullMatch(patterns[key], SubSeq(text, from, to)) => ~Occurs(SubSeq(text, from, to), result)

\* C2 (as claimed): a second pass of clean_text over its own output changes
\* nothing.
C2_Idempotent == cpc = "done" => CleanText(result) = result

\* C3 (as claimed): clean_text returns the empty string for the empty input and
\* for every whitespace-only input.
C3_WhitespaceGivesEmpty == (cpc = "done" /\ OnlyWhitespace(text)) => result = <<>>

\* C3 (amended): clean_text returns the empty string for the empty input, and
\* returns a non-empty whitespace-only input unchanged.
C3_WhitespaceUnchanged ==
  /\ (cpc = "done" /\ OnlyWhitespace(text)) => result = text
  /\ (cpc = "done" /\ text = <<>>) => (result = <<>> /\ applied = <<>>)

C3_Witness == cpc = "done" /\ text # <<>> /\ OnlyWhitespace(text) /\ result = text

\* the matches of every pattern in t, as <<key, <<start, end>>>>
AllMatches(t) == UNION {{<<key, h>> : h \in Matches(patterns[key], t)} : key \in Range(Keys)}
\* a match with whitespace or an end of the string on either side
Delimited(t, h) ==
  /\ h[1] = 1 \/ t[h[1] - 1] \in Whitespace
  /\ h[2] > Len(t) \/ t[h[2]] \in Whitespace
\* every match stands alone between whitespace, and matches of different
\* categories do not overlap
Separated(t) ==
  LET H == AllMatches(t)
  IN \A a \in H :
       /\ Delimited(t, a[2])
       /\ \A b \in H : a[1] # b[1] => (a[2][2] <= b[2][1] \/ b[2][2] <= a[2][1])

\* C9 (as claimed): the four patterns applied in any order give the output of
\* clean_text.
C9_OrderIndependent ==
  (cpc = "done" /\ text # <<>>) => \A o \in Orders : ApplyAll(o, text) = result

\* C9 (amended): the four patterns applied in any order give the output of
\* clean_text for every input in which each match of each pattern is
\* delimited by whitespace or an end of the string and no two matches of
\* different categories overlap.
C9_OrderIndependentWhenSeparated ==
  (cpc = "done" /\ text # <<>> /\ Separated(text)) =>
    \A o \in Orders : ApplyAll(o, text) = result

C9_Witness ==
  /\ cpc = "done"
  /\ Separated(text)
  /\ Cardinality({a[1] : a \in AllMatches(text)}) >= 2
  /\ \A o \in Orders : ApplyAll(o, text) = result

\* C10: on a call with non-empty input the four patterns are applied exactly
\* once each in the order IPV4, EMAIL, SECRET_KEY, MAC_ADDR; the first to the
\* argument, each later one to the whole output of the one before, each with
\* its own placeholder; the call returns the output of the last.
C10_SequentialTotal ==
  LET order == <<"IPV4", "EMAIL", "SECRET_KEY", "MAC_ADDR">>
      tag == [IPV4 |-> replacements.IPV4, EMAIL |-> replacements.EMAIL,
              SECRET_KEY |-> replacements.SECRET_KEY, MAC_ADDR |-> replacements.MAC_ADDR]
      out(n) == ReSub(patterns[order[n]], tag[order[n]], applied[n][3])
  IN /\ Len(applied) <= 4
     /\ \A n \in DOMAIN applied : applied[n][1] = order[n] /\ applied[n][2] = tag[order[n]]
     /\ applied # <<>> => applied[1][3] = text
     /\ (cpc = "done" /\ text # <<>>) =>
          /\ Len(applied) = 4
          /\ \A n \in 2..4 : applied[n][3] = out(n - 1)
          /\ result = out(4)

\* a call in which the first pattern and a later one both replaced something
C10_Witness ==
  /\ cpc = "done"
  /\ Len(applied) = 4
  /\ applied[2][3] # text
  /\ result # applied[2][3]

----------------------------------------------------------------------------
(* Properties of create_chunks, checked under SpecChunks.                  *)

\* 0 <= overlap < window_size
ValidConfig == chunk_size >= 1 /\ overlap >= 0 /\ overlap < chunk_size
Returned == kpc = "done" /\ outcome = "return"
\* the tokens from offset at to the end, joined by single spaces
Suffix(at) == Join(SubSeq(words, at + 1, Len(words)), <<" ">>)
\* the k-th smallest member of S
Nth(S, k) == CHOOSE o \in S : Cardinality({q \in S : q < o}) = k - 1

\* C4 (as claimed): a text of 0 < n < window_size tokens gives exactly one
\* chunk, all n tokens joined by single spaces, when that string is longer
\* than 50 characters, and no chunk otherwise, also when stride < n.
C4_OneChunkBelowWindow ==
  (kpc = "done" /\ ValidConfig /\ 0 < Len(words) /\ Len(words) < chunk_size) =>
    /\ outcome = "return"
    /\ chunks = IF Len(Suffix(0)) > 50 THEN <<Suffix(0)>> ELSE <<>>

\* C4 (amended): a text of 0 < n < window_size tokens gives, for each start
\* offset 0, stride, 2*stride, ... below n in that order, the tokens from that
\* offset to the end joined by single spaces, when that string is longer than
\* 50 characters: exactly one chunk (all n tokens) or none when n <= stride,
\* and further chunks, suffixes of the first window, when stride < n.
C4_SuffixChunksBelowWindow ==
  (kpc = "done" /\ ValidConfig /\ 0 < Len(words) /\ Len(words) < chunk_size) =>
    LET stride == chunk_size - overlap
        starts == {at \in 0..(Len(words) - 1) : at % stride = 0 /\ Len(Suffix(at)) > 50}
    IN /\ outcome = "return"
       /\ Len(words) <= stride =>
            chunks = IF Len(Suffix(0)) > 50 THEN <<Suffix(0)>> ELSE <<>>
       /\ Len(chunks) = Cardinality(starts)
       /\ \A k \in DOMAIN chunks : chunks[k] = Suffix(Nth(starts, k))

\* fewer tokens than the window, more than the stride, and a second chunk
C4_Witness ==
  /\ kpc = "done" /\ ValidConfig
  /\ chunk_size - overlap < Len(words) /\ Len(words) < chunk_size
  /\ Len(chunks) >= 2

\* C5 (as claimed): a configuration with overlap >= window_size is rejected
\* with an error, whatever the text.
C5_InvalidConfigRejected ==
  (kpc = "done" /\ overlap >= chunk_size) => outcome = "ValueError"

\* the tokens of each window produced
WindowTokens == [k \in DOMAIN windows |-> Split(windows[k][2])]
\* token index at (from 0) of the input is a token of window k
InWindow(toks, k, at) ==
  /\ windows[k][1] <= at
  /\ at < windows[k][1] + Len(toks[k])
  /\ toks[k][at - windows[k][1] + 1] = words[at + 1]
Appended(w) == w[3]
\* the windows that were appended, in the order produced
KeptTexts == LET kept == SelectSeq(windows, Appended) IN [k \in DOMAIN kept |-> kept[k][2]]

\* C6 (as claimed): every token index 0..n-1 of a text with at least one
\* token is in at least one returned chunk, and the returned chunks follow
\* the input's token order.
C6_EveryTokenInAChunk ==
  (Returned /\ ValidConfig /\ words # <<>>) =>
    LET toks == WindowTokens
    IN /\ chunks = KeptTexts
       /\ \A at \in 0..(Len(words) - 1) :
            \E k \in DOMAIN windows : windows[k][3] /\ InWindow(toks, k, at)

\* C6 (amended): every token index 0..n-1 is in at least one window the loop
\* produces; the returned chunks are exactly the windows longer than 50
\* characters, in the order of their increasing offsets; so a token is in no
\* returned chunk exactly when every window holding it is 50 characters or
\* shorter.
C6_EveryTokenInAWindow ==
  (Returned /\ ValidConfig /\ words # <<>>) =>
    LET toks == WindowTokens
    IN /\ chunks = KeptTexts
       /\ \A k \in DOMAIN windows :
            /\ windows[k][3] <=> Len(windows[k][2]) > 50
            /\ k > 1 => windows[k][1] > windows[k - 1][1]
       /\ \A at \in 0..(Len(words) - 1) : \E k \in DOMAIN windows : InWindow(toks, k, at)

\* a chunk is returned and yet a token is in no returned chunk
C6_Witness ==
  /\ Returned /\ ValidConfig /\ chunks # <<>>
  /\ \E at \in 0..(Len(words) - 1) :
       \A k \in DOMAIN windows : windows[k][3] => ~InWindow(WindowTokens, k, at)

\* C7: with stride = window_size - overlap >= 1 the k-th window (k = 0, 1, ..)
\* is the tokens [k*stride, min(k*stride + window_size, n)) joined by single
\* spaces, windows come in increasing k, consecutive full windows share
\* exactly overlap tokens; 1000 tokens with window 500 and overlap 50 give
\* exactly 3 chunks, from tokens 0, 450 and 900, the last the final 100.
C7_Windowing ==
  (kpc \in {"loop", "done"} /\ overlap >= 0 /\ chunk_size - overlap >= 1) =>
    LET stride == chunk_size - overlap
        n == Len(words)
        lo(k) == (k - 1) * stride
        hi(k) == IF lo(k) + chunk_size < n THEN lo(k) + chunk_size ELSE n
    IN /\ \A k \in DOMAIN windows :
            /\ windows[k][1] = lo(k)
            /\ windows[k][2] = Join(SubSeq(words, lo(k) + 1, hi(k)), <<" ">>)
            /\ Len(Split(windows[k][2])) = hi(k) - lo(k)
       /\ \A k \in 1..(Len(windows) - 1) :
            (lo(k) + chunk_size <= n /\ lo(k + 1) + chunk_size <= n) =>
              Cardinality((lo(k)..(hi(k) - 1)) \cap (lo(k + 1)..(hi(k + 1) - 1))) = overlap
       /\ (kpc = "done" /\ n = 1000 /\ chunk_size = 500 /\ overlap = 50) =>
            /\ Len(chunks) = 3
            /\ <<windows[1][1], windows[2][1], windows[3][1]>> = <<0, 450, 900>>
            /\ chunks = <<windows[1][2], windows[2][2], windows[3][2]>>
            /\ Split(chunks[3]) = SubSeq(words, 901, 1000)

\* the 1000-token text, chunked
C7_Witness ==
  /\ kpc = "done" /\ Len(words) = 1000 /\ chunk_size = 500 /\ overlap = 50
  /\ Len(chunks) = 3

----------------------------------------------------------------------------
(* Properties of main, checked under Spec.                                 *)

C8_State ==
  /\ mpc \in {"sanitize", "chunk", "write"} =>
       raw_content = walk[fidx].content /\ ~OnlyWhitespace(walk[fidx].content)
  /\ mpc \in {"chunk", "write"} => clean_content = CleanText(raw_content)
  /\ mpc = "write" =>
       /\ file_chunks = CreateChunks(clean_content, 500, 50).chunks
       /\ widx <= Len(file_chunks) /\ widx <= Len(f_out)
       /\ SubSeq(f_out, Len(f_out) - widx + 1, Len(f_out))
            = [k \in 1..widx |-> [source |-> walk[fidx].name, text |-> file_chunks[k]]]
  /\ total_chunks = Len(f_out)

C8_Step ==
  /\ SubSeq(f_out', 1, Len(f_out)) = f_out
  /\ f_out' # f_out =>
       /\ mpc = "write" /\ mpc' = "write"
       /\ widx' = widx + 1
       /\ f_out' = Append(f_out, [source |-> walk[fidx].name, text |-> file_chunks[widx + 1]])
  /\ (mpc = "write" /\ mpc' # "write") => widx = Len(file_chunks)
  /\ mpc' = "write" => (mpc = "write" \/ (mpc = "chunk" /\ widx' = 0))
  /\ mpc' = "chunk" => mpc = "sanitize"

\* C8: for each file processed, clean_text is applied to the whole raw content
\* before create_chunks is called on its result; then one record {source:
\* filename, text: chunk} is written per chunk returned, each once and in the
\* order returned, and written records are never changed; no record has text
\* that was not sanitized, and a file with empty or whitespace-only content
\* yields no record.
C8_RecordEmission == []C8_State /\ [][C8_Step]_vars

\* both chunks of a sanitized file written after another file's record
C8_Witness ==
  /\ mpc = "write" /\ widx = 2 /\ Len(f_out) = 3
  /\ clean_content # raw_content
  /\ f_out[2].text # f_out[3].text

----------------------------------------------------------------------------
(* Termination of create_chunks, checked under SpecChunksFair.             *)

\* ceil(n / d) for n >= 0, d >= 1
CeilDiv(n, d) == (n + d - 1) \div d

\* the windows produced so far start at 0, stride, 2*stride, .. below n, each
\* holds the tokens from its offset up to window_size of them or the end, and
\* there are at most ceil(n / stride) of them; at the return there is one for
\* every multiple of stride below n; a text without tokens returns []
C11_State ==
  /\ (kpc \in {"loop", "done"} /\ chunk_size - overlap >= 1) =>
       LET stride == chunk_size - overlap
           n == Len(words)
       IN /\ \A k \in DOMAIN windows :
               LET at == windows[k][1]
               IN /\ at = (k - 1) * stride
                  /\ at < n
                  /\ windows[k][2] =
                       Join(SubSeq(words, at + 1, Min({at + chunk_size, n})), <<" ">>)
          /\ Len(windows) <= CeilDiv(n, stride)
          /\ kpc = "done" =>
               /\ outcome = "return"
               /\ {windows[k][1] : k \in DOMAIN windows} =
                    {at \in 0..(n - 1) : at % stride = 0}
  /\ (kpc = "done" /\ words = <<>>) =>
       outcome = "return" /\ chunks = <<>> /\ windows = <<>>

\* C11: for every token sequence of length n and every configuration with
\* stride = window_size - overlap >= 1 the loop of create_chunks terminates,
\* produces a window for every start offset k*stride < n (the last one even
\* if shorter than window_size), none with start offset >= n, so at most
\* ceil(n / stride) windows; for n = 0 it returns the empty list.
C11_Termination ==
  /\ (kpc = "loop" /\ chunk_size - overlap >= 1) ~> (kpc = "done" /\ outcome = "return")
  /\ []C11_State

\* a return after several windows, n not a multiple of the stride, the last
\* window shorter than window_size
C11_Witness ==
  /\ Returned
  /\ chunk_size - overlap >= 1
  /\ Len(words) % (chunk_size - overlap) # 0
  /\ Len(windows) >= 2
  /\ Len(windows) = CeilDiv(Len(words), chunk_size - overlap)
  /\ windows[Len(windows)][1] + chunk_size > Len(words)

----------------------------------------------------------------------------
(* The minimum-length filter of create_chunks, checked under SpecChunks.   *)

\* a produced window whose joined text is longer than 50 characters
C12_Long(w) == Len(w[2]) > 50

\* C12: a window produced by create_chunks is emitted if and only if its
\* single-space-joined text is strictly longer than 50 characters (a window
\* of exactly 50 characters is discarded), so every returned chunk is longer
\* than 50 characters; a discarded window changes neither the offsets of the
\* later windows nor the order of the emitted ones.
C12_MinLengthFilter ==
  kpc \in {"loop", "done"} =>
    LET emitted == SelectSeq(windows, C12_Long)
    IN /\ \A k \in DOMAIN windows :
            /\ windows[k][3] <=> Len(windows[k][2]) > 50
            /\ Len(windows[k][2]) = 50 => ~windows[k][3]
            /\ windows[k][1] = (k - 1) * (chunk_size - overlap)
            /\ windows[k][2] =
                 Join(SubSeq(words, windows[k][1] + 1,
                             Min({windows[k][1] + chunk_size, Len(words)})), <<" ">>)
       /\ chunks = [k \in DOMAIN emitted |-> emitted[k][2]]
       /\ \A k \in DOMAIN chunks : Len(chunks[k]) > 50

\* a window of exactly 50 characters discarded, and after it a window of 51
\* characters emitted
C12_Witness ==
  /\ Returned
  /\ \E k \in DOMAIN windows : \E later \in DOMAIN windows :
       /\ k < later
       /\ Len(windows[k][2]) = 50 /\ ~windows[k][3]
       /\ Len(windows[later][2]) = 51 /\ windows[later][3]
       /\ chunks[Len(chunks)] = windows[later][2]

====
